---- MODULE Spec2Model ----
(***************************************************************************)
(* Model of the incremental update planner, the concurrent fetch           *)
(* coordinator and the storage upsert of the stock database manager        *)
(* (src/src/core/data_fetcher.py, src/src/core/database_manager.py,        *)
(* src/src/config/settings.py).                                            *)
(*                                                                         *)
(* Dates.  The code keeps dates as '%Y-%m-%d' strings and compares them as *)
(* strings.  The model keeps a date string as a pair <<month, day>> of a   *)
(* calendar whose months have MonthLen days, compared lexicographically,   *)
(* and a calendar day as a day number; strftime and strptime convert.      *)
(* Numeric cell values are kept as their printed form ("1.0", "nan",       *)
(* "inf"); the SQL NULL is "NULL".                                         *)
(***************************************************************************)
EXTENDS Integers, Sequences, FiniteSets, TLC

\* ------------------------------------------------------------------ bounds
\* Days in a month of the model's calendar.
MonthLen == 4
\* The calendar day on which the process is started (config is imported).
InitDay == 5
\* How many midnights pass while the process lives.
MaxTicks == 1
\* Longest symbol list handed to get_update_plan on its own.
MaxSymbols == 3
\* Longest symbol list handed to a run.
MaxRunSymbols == 2
\* Largest worker-pool size (config.MAX_WORKERS is 1 or MaxWorkers).
MaxWorkers == 2
\* Longest batch of rows submitted to insert_dataframe_chunked on its own.
MaxBatch == 3
\* Rows per committed chunk; stands for chunk_size = 10000, scaled down so
\* that a batch spans several chunks.
chunk_size == 2
\* Storage operations (direct writes, purges, further runs) in one session.
MaxOps == 2

MaxDay == InitDay + MaxTicks

\* Most chunks a run's combined frame can span (two rows per symbol).
MaxChunks == (2 * MaxRunSymbols + chunk_size - 1) \div chunk_size

\* ---------------------------------------------------------------- calendar
\* datetime.strftime('%Y-%m-%d'): day number -> date string.
strftime(n) == <<(n \div MonthLen) + 1, (n % MonthLen) + 1>>

\* str(NaN): what a NaT date becomes on its way into the table.
NanStr == <<99, 99>>

\* Absent value (Python None) where a date string is expected.
None == <<>>

\* A parser that accepts every string.
AnyStringParses(s) == TRUE

\* Whether datetime.strptime(s, '%Y-%m-%d') succeeds (else ValueError).
Parseable(s) == /\ Len(s) = 2
                /\ s[1] \in 1..12
                /\ s[2] \in 1..MonthLen

\* datetime.strptime(s, '%Y-%m-%d'): date string -> day number.
strptime(s) == (s[1] - 1) * MonthLen + (s[2] - 1)

\* Python str comparison a < b on date strings (lexicographic).
StrLess(a, b) == \/ a[1] < b[1]
                 \/ (a[1] = b[1] /\ a[2] < b[2])

StrLeq(a, b) == a = b \/ StrLess(a, b)

\* config.START_DATE = "2010-01-01": the first day of the calendar.
START_DATE == strftime(0)

\* ----------------------------------------------------------------- symbols
Symbols == {"A.NS", "B.NS", "C.NS"}

\* symbol.replace('.NS', '')
TickerOf(symbol) == CASE symbol = "A.NS" -> "A"
                      [] symbol = "B.NS" -> "B"
                      [] symbol = "C.NS" -> "C"
                      [] OTHER -> symbol

Tickers == {TickerOf(s) : s \in Symbols}

RECURSIVE SeqsUpTo(_, _)
\* All sequences over S of length 0..n.
SeqsUpTo(S, n) == IF n = 0 THEN {<<>>}
                  ELSE LET shorter == SeqsUpTo(S, n - 1)
                       IN shorter \cup {Append(q, x) : q \in shorter, x \in S}

\* ----------------------------------------------------------------- storage
\* A pandas Timestamp: a day with a timezone, or NaT.
Timestamp(day, tz) == [day |-> day, tz |-> tz]
NaT == [day |-> 0 - 1, tz |-> "NaT"]

\* Series.dt.tz_localize(None): drop the timezone, keep the wall-clock day.
tz_localize_none(ts) == IF ts.tz = "NaT" THEN ts ELSE [ts EXCEPT !.tz = "naive"]

\* Series.dt.strftime('%Y-%m-%d') followed by str(): NaT gives 'nan'.
DateToStr(ts) == IF ts.tz = "NaT" THEN NanStr ELSE strftime(ts.day)

\* float(x) if pd.notna(x) else None
ToReal(x) == IF x = "nan" THEN "NULL" ELSE x

\* int(x) if pd.notna(x) else None
ToInt(x) == IF x = "nan" THEN "NULL" ELSE x

\* int(x) raises OverflowError on an infinite volume.
RowRaises(row) == row.volume = "inf"

\* The bound parameters of one INSERT OR REPLACE (lines 153-162), after the
\* date conversion of lines 124-133.
RowParams(row, is_missing) ==
    [ticker     |-> row.ticker,
     date       |-> DateToStr(tz_localize_none(row.date)),
     open       |-> ToReal(row.open),
     high       |-> ToReal(row.high),
     low        |-> ToReal(row.low),
     close      |-> ToReal(row.close),
     volume     |-> ToInt(row.volume),
     is_missing |-> is_missing]

\* A key comparison that matches a stored row only when every column agrees.
SameRowValues(r, p) == r = p

\* PRIMARY KEY (ticker, date)
SameKey(r, p) == r.ticker = p.ticker /\ r.date = p.date

\* A plain INSERT that keeps the old row of the key as well.
InsertKeepingOld(tbl, p) == Append(tbl, p)

\* INSERT OR REPLACE INTO stock_data: the row of the same (ticker, date), if
\* any, is deleted and the new row is added.
InsertOrReplace(tbl, p) ==
    Append(SelectSeq(tbl, LAMBDA r : ~SameKey(r, p)), p)

RECURSIVE ExecChunkAborting(_, _, _, _)
\* A row loop that gives up the rest of the chunk at the first row that
\* raises.
ExecChunkAborting(st, rows, i, is_missing) ==
    IF i > Len(rows) \/ RowRaises(rows[i]) THEN st
    ELSE ExecChunkAborting([tbl |-> InsertOrReplace(st.tbl, RowParams(rows[i], is_missing)),
                            inserted_count |-> st.inserted_count + 1],
                           rows, i + 1, is_missing)

RECURSIVE ExecChunk(_, _, _, _)
\* The row loop of one chunk (lines 145-166) on the open transaction: a row
\* whose conversion raises is skipped.  Returns the table and the count.
ExecChunk(st, rows, i, is_missing) ==
    IF i > Len(rows) THEN st
    ELSE IF RowRaises(rows[i])
         THEN ExecChunk(st, rows, i + 1, is_missing)
         ELSE ExecChunk([tbl |-> InsertOrReplace(st.tbl, RowParams(rows[i], is_missing)),
                         inserted_count |-> st.inserted_count + 1],
                        rows, i + 1, is_missing)

Min(a, b) == IF a < b THEN a ELSE b

RECURSIVE ChunkLoop(_, _, _, _, _)
\* The chunk loop (lines 142-170) from row offset i (0-based).  commitFail
\* is the number of the chunk whose commit raises (0: none does); the rows
\* of that chunk are lost with the connection, the earlier chunks stay.
ChunkLoop(st, df, i, is_missing, commitFail) ==
    IF i >= Len(df) THEN [tbl |-> st.tbl, ret |-> st.inserted_count > 0]
    ELSE LET chunk == SubSeq(df, i + 1, Min(i + chunk_size, Len(df)))
             after == ExecChunk(st, chunk, 1, is_missing)
         IN IF commitFail = (i \div chunk_size) + 1
            THEN [tbl |-> st.tbl, ret |-> FALSE]
            ELSE ChunkLoop(after, df, i + chunk_size, is_missing, commitFail)

NumChunks(df) == (Len(df) + chunk_size - 1) \div chunk_size

\* insert_dataframe_chunked once the engine is initialized (lines 116-177).
\* connectFail: engine.connect() raises.  Returns the table and the bool.
insert_dataframe_chunked(tbl, df, is_missing, connectFail, commitFail) ==
    IF df = <<>> THEN [tbl |-> tbl, ret |-> FALSE]
    ELSE IF connectFail THEN [tbl |-> tbl, ret |-> FALSE]
    ELSE ChunkLoop([tbl |-> tbl, inserted_count |-> 0], df, 0, is_missing, commitFail)

RECURSIVE EarliestDate(_, _, _, _)
\* A query that answers with the earliest stored date of the ticker.
EarliestDate(tbl, ticker, i, best) ==
    IF i > Len(tbl) THEN best
    ELSE IF tbl[i].ticker = ticker /\ (best = None \/ StrLess(tbl[i].date, best))
         THEN EarliestDate(tbl, ticker, i + 1, tbl[i].date)
         ELSE EarliestDate(tbl, ticker, i + 1, best)

\* SELECT ticker, MAX(date) ... GROUP BY ticker, for one ticker: the greatest
\* stored date string, or None.
RECURSIVE MaxDate(_, _, _, _)
MaxDate(tbl, ticker, i, best) ==
    IF i > Len(tbl) THEN best
    ELSE IF tbl[i].ticker = ticker /\ (best = None \/ StrLess(best, tbl[i].date))
         THEN MaxDate(tbl, ticker, i + 1, tbl[i].date)
         ELSE MaxDate(tbl, ticker, i + 1, best)

\* get_latest_dates(tickers) once initialized: queryFail is the query
\* raising, which gives None for every requested ticker (line 278).
get_latest_dates(tbl, tickers, queryFail) ==
    [t \in tickers |-> IF queryFail THEN None ELSE MaxDate(tbl, t, 1, None)]

\* ----------------------------------------------------------------- planner
\* The plan of an empty symbol list (lines 281-288) and the plan the loop
\* starts from (lines 299-305).
EmptyPlan(n) ==
    [symbols_needing_full_fetch |-> <<>>,
     symbols_needing_update     |-> <<>>,
     symbols_up_to_date         |-> <<>>,
     update_ranges              |-> [s \in {} |-> <<>>],
     total_symbols              |-> n]

\* A gap test that already fires at three days.
GapAtLeastThree(days_diff) == days_diff >= 3

\* days_diff > 3: a meaningful gap (line 329).
MeaningfulGap(days_diff) == days_diff > 3

\* A full fetch whose range ends at the day before the configured end.
AddFullFetchShortRange(plan, symbol, start, end) ==
    [plan EXCEPT !.symbols_needing_full_fetch = Append(@, symbol),
                 !.update_ranges = (symbol :> <<start, strftime(strptime(end) - 1)>>) @@ @]

\* plan[...].append(symbol); plan['update_ranges'][symbol] = (start, end)
AddFullFetch(plan, symbol, start, end) ==
    [plan EXCEPT !.symbols_needing_full_fetch = Append(@, symbol),
                 !.update_ranges = (symbol :> <<start, end>>) @@ @]

AddUpdate(plan, symbol, start, end) ==
    [plan EXCEPT !.symbols_needing_update = Append(@, symbol),
                 !.update_ranges = (symbol :> <<start, end>>) @@ @]

AddUpToDate(plan, symbol) ==
    [plan EXCEPT !.symbols_up_to_date = Append(@, symbol)]

\* A classification that forgets the symbol whose next day is after today.
ClassifyDroppingCurrent(plan, symbol, latest_dates, todayStr, endStr) ==
    LET latest_date == latest_dates[TickerOf(symbol)]
    IN  IF latest_date = None \/ ~Parseable(latest_date)
        THEN AddFullFetch(plan, symbol, START_DATE, endStr)
        ELSE LET latest_dt  == strptime(latest_date)
                 start_date == strftime(latest_dt + 1)
             IN  IF StrLeq(start_date, todayStr)
                 THEN IF MeaningfulGap(strptime(endStr) - latest_dt)
                      THEN AddUpdate(plan, symbol, start_date, endStr)
                      ELSE AddUpToDate(plan, symbol)
                 ELSE plan

\* A classification that measures the gap from the current day.
ClassifyAgainstToday(plan, symbol, latest_dates, todayStr, endStr) ==
    LET latest_date == latest_dates[TickerOf(symbol)]
    IN  IF latest_date = None \/ ~Parseable(latest_date)
        THEN AddFullFetch(plan, symbol, START_DATE, endStr)
        ELSE LET latest_dt  == strptime(latest_date)
                 start_date == strftime(latest_dt + 1)
             IN  IF StrLeq(start_date, todayStr) /\ MeaningfulGap(strptime(todayStr) - latest_dt)
                 THEN AddUpdate(plan, symbol, start_date, endStr)
                 ELSE AddUpToDate(plan, symbol)

\* One iteration of the classification loop (lines 309-342).  self.end_date
\* is always a parseable date, so only the stored date can fail to parse.
Classify(plan, symbol, latest_dates, todayStr, endStr) ==
    LET latest_date == latest_dates[TickerOf(symbol)]
    IN  IF latest_date = None
        THEN AddFullFetch(plan, symbol, START_DATE, endStr)
        ELSE IF ~Parseable(latest_date)
        THEN AddFullFetch(plan, symbol, START_DATE, endStr)
        ELSE LET latest_dt  == strptime(latest_date)
                 start_date == strftime(latest_dt + 1)
             IN  IF StrLeq(start_date, todayStr)
                 THEN IF MeaningfulGap(strptime(endStr) - latest_dt)
                      THEN AddUpdate(plan, symbol, start_date, endStr)
                      ELSE AddUpToDate(plan, symbol)
                 ELSE AddUpToDate(plan, symbol)

RECURSIVE ClassifyAll(_, _, _, _, _, _)
ClassifyAll(plan, syms, i, latest_dates, todayStr, endStr) ==
    IF i > Len(syms) THEN plan
    ELSE ClassifyAll(Classify(plan, syms[i], latest_dates, todayStr, endStr),
                     syms, i + 1, latest_dates, todayStr, endStr)

\* The plan of the outer except (lines 350-358): everything is fetched in full.
FallbackPlan(syms, endStr) ==
    [symbols_needing_full_fetch |-> syms,
     symbols_needing_update     |-> <<>>,
     symbols_up_to_date         |-> <<>>,
     update_ranges              |-> [s \in {syms[i] : i \in 1..Len(syms)} |-> <<START_DATE, endStr>>],
     total_symbols              |-> Len(syms)]

\* get_update_plan(symbols) on table tbl at calendar day day.  initRaises:
\* the lazy db_manager.initialize() raises;  queryFail: the latest-date query
\* raises inside get_latest_dates.
get_update_plan(syms, tbl, day, endStr, initRaises, queryFail) ==
    IF syms = <<>> THEN EmptyPlan(0)
    ELSE IF initRaises THEN FallbackPlan(syms, endStr)
    ELSE ClassifyAll(EmptyPlan(Len(syms)), syms, 1,
                     get_latest_dates(tbl, {TickerOf(syms[i]) : i \in 1..Len(syms)}, queryFail),
                     strftime(day), endStr)

\* ------------------------------------------------------------------- state
VARIABLES
    today,              \* the current calendar day (datetime.now().date())
    end_date,           \* DataFetcher.end_date = config.END_DATE, set at import
    max_workers,        \* DataFetcher.max_workers
    table,              \* the rows of stock_data, in rowid order
    is_initialized,     \* DatabaseManager.is_initialized
    df,                 \* the batch last handed to insert_dataframe_chunked
    df_is_missing,      \* its is_missing argument
    subs,               \* how many times that batch has been submitted
    before,             \* the table before its first submission
    once,               \* the table after its first submission
    oks,                \* per submission: it met no storage failure
    failure,            \* what stopped the last submission or the run's insert call
    symbols,            \* the symbol list of the plan or run
    plan,               \* the value get_update_plan returned
    plan_path,          \* how it was computed: "query", "query_failed", "init_failed", "empty"
    plan_day,           \* the calendar day on which it was computed
    pc,                 \* where fetch_all_stocks_concurrent stands
    full_refresh,       \* its full_refresh argument
    symbols_to_process, \* the symbols it submits
    symbol_date_ranges, \* symbol -> (start_date, end_date)
    tasks,              \* one record per submitted future
    successful_fetches,
    failed_fetches,
    skipped_fetches,
    progress,           \* update_callback: how often it was called, and its last arguments
    all_data,           \* the frames appended by the aggregation loop
    ret,                \* the (success, result) pair returned
    requests,           \* the ticker.history calls issued to the provider
    insert_calls,       \* calls of insert_dataframe_chunked by the run
    table0,             \* the table when the run started
    symbol_source,      \* where the run took its symbols from
    last_update,        \* data/last_update.json: "Never" or "saved"
    ops,                \* storage operations started so far
    purge,              \* the last purge: its number, selection and outcome
    is_updating,        \* NiftyMenuBarApp.is_updating
    menu,               \* the main thread: "idle", or "confirm" inside the alert
    updates,            \* one record per update thread started by the menu
    rejected            \* requests answered with "Update in Progress"

envVars    == <<today, end_date, max_workers>>
dbVars     == <<table, is_initialized>>
upsertVars == <<df, df_is_missing, subs, before, once, oks, failure>>
planVars   == <<symbols, plan, plan_path, plan_day>>
countVars  == <<successful_fetches, failed_fetches, skipped_fetches, progress>>
runVars    == <<pc, full_refresh, symbols_to_process, symbol_date_ranges, tasks,
                countVars, all_data, ret, requests, insert_calls, table0>>
callerVars == <<symbol_source, last_update>>
storeVars  == <<ops, purge>>
menuVars   == <<is_updating, menu, updates, rejected>>
vars       == <<envVars, dbVars, upsertVars, planVars, runVars, callerVars, storeVars,
                menuVars>>

Range(q) == {q[i] : i \in 1..Len(q)}

\* One normalized row of a batch, as fetch_single_stock builds it.
Row(ticker, date, price, volume) ==
    [ticker |-> ticker, date |-> date,
     open |-> price, high |-> price, low |-> price, close |-> price,
     volume |-> volume]

\* The progress callback before its first call.
NoProgress == [calls |-> 0, fraction |-> <<0, 1>>, successes |-> 0, failures |-> 0]

\* update_callback(progress, symbol, successful_fetches, failed_fetches) with
\* progress = (successful_fetches + failed_fetches) / len(symbols_to_process)
\* (lines 221-223); the fraction is kept as numerator and denominator.
update_callback(prev, succ, fail, n) ==
    [calls     |-> prev.calls + 1,
     fraction  |-> <<succ + fail, n>>,
     successes |-> succ,
     failures  |-> fail]

\* The state of a freshly started process: config.END_DATE is today.
InitCommon ==
    /\ today = InitDay
    /\ end_date = strftime(InitDay)
    /\ df = <<>> /\ df_is_missing = FALSE /\ subs = 0
    /\ before = <<>> /\ once = <<>> /\ oks = <<>>
    /\ failure = [kind |-> "none", chunk |-> 0]
    /\ symbols = <<>> /\ plan = EmptyPlan(0) /\ plan_path = "none" /\ plan_day = InitDay
    /\ pc = "idle" /\ full_refresh = FALSE
    /\ symbols_to_process = <<>>
    /\ symbol_date_ranges = [s \in {} |-> <<>>]
    /\ tasks = <<>>
    /\ successful_fetches = 0 /\ failed_fetches = 0 /\ skipped_fetches = 0
    /\ progress = NoProgress
    /\ all_data = <<>>
    /\ ret = [success |-> FALSE, result |-> [s \in {} |-> 0]]
    /\ requests = {}
    /\ insert_calls = 0
    /\ table0 = <<>>
    /\ symbol_source = "none"
    /\ last_update = "Never"
    /\ ops = 0
    /\ purge = [n |-> 0, selected |-> {}, failed |-> {}, committed |-> FALSE]
    /\ is_updating = FALSE /\ menu = "idle" /\ updates = <<>> /\ rejected = 0

\* Midnight passes.  The clock is read by the planner and at the start of
\* fetch_single_stock only, so the model stops watching it once no run and
\* no task is left to start.
Tick ==
    /\ today < MaxDay
    /\ (pc = "idle" \/ \E j \in 1..Len(tasks) : tasks[j].st = "pending")
    /\ today' = today + 1
    /\ UNCHANGED <<end_date, max_workers, dbVars, upsertVars, planVars, runVars,
                   callerVars, storeVars, menuVars>>

\* ------------------------------------------------- the upsert, on its own
\* Rows a batch is drawn from: two rows of one key (with and without a
\* timezone), a row whose volume conversion raises, a row with a NaT date.
UpsertRows ==
    {Row("A", Timestamp(1, "naive"), "1.0", "1.0"),
     Row("A", Timestamp(1, "Asia/Kolkata"), "2.0", "nan"),
     Row("A", Timestamp(2, "naive"), "nan", "inf"),
     Row("B", NaT, "1.0", "1.0")}

Batches == SeqsUpTo(UpsertRows, MaxBatch)

\* Tables an earlier write can have left behind.
UpsertTables ==
    {insert_dataframe_chunked(<<>>, d, m, FALSE, 0).tbl :
        d \in SeqsUpTo(UpsertRows, 1), m \in BOOLEAN}

\* What stops insert_dataframe_chunked(d, ...): the lazy initialize() raising
\* (lines 113-114), the empty batch (116-118), engine.connect() raising
\* (141), or the commit of one chunk raising (168); the last three end in
\* "return False".
StorageFailure(d, initRaises, connectFail, commitFail) ==
    IF initRaises THEN [kind |-> "init", chunk |-> 0]
    ELSE IF d = <<>> THEN [kind |-> "empty", chunk |-> 0]
    ELSE IF connectFail THEN [kind |-> "connect", chunk |-> 0]
    ELSE IF commitFail > 0 THEN [kind |-> "commit", chunk |-> commitFail]
    ELSE [kind |-> "none", chunk |-> 0]

InitUpsert ==
    /\ InitCommon
    /\ max_workers = MaxWorkers
    /\ table \in UpsertTables
    /\ is_initialized \in BOOLEAN

\* db_manager.insert_dataframe_chunked(d, m): a first submission of a batch,
\* or the same batch again.  initRaises: the lazy initialize() raises and the
\* exception leaves the call (lines 113-114).
Upsert(d, m, initRaises, connectFail, commitFail) ==
    /\ subs < 2
    /\ subs = 1 => (d = df /\ m = df_is_missing)
    /\ initRaises => ~is_initialized
    /\ LET r == IF initRaises THEN [tbl |-> table, ret |-> FALSE]
                ELSE insert_dataframe_chunked(table, d, m, connectFail, commitFail)
       IN  /\ table' = r.tbl
           /\ is_initialized' = (is_initialized \/ ~initRaises)
           /\ df' = d /\ df_is_missing' = m
           /\ subs' = subs + 1
           /\ before' = IF subs = 0 THEN table ELSE before
           /\ once' = IF subs = 0 THEN r.tbl ELSE once
           /\ oks' = Append(oks, ~initRaises /\ ~connectFail /\ commitFail = 0)
           /\ failure' = StorageFailure(d, initRaises, connectFail, commitFail)
    /\ UNCHANGED <<envVars, planVars, runVars, callerVars, storeVars, menuVars>>

NextUpsert ==
    \E d \in Batches, m \in BOOLEAN, initRaises \in BOOLEAN, connectFail \in BOOLEAN :
        \E commitFail \in 0..NumChunks(d) :
            Upsert(d, m, initRaises, connectFail, commitFail)

SpecUpsert == InitUpsert /\ [][NextUpsert]_vars

\* ------------------------------------------------ the planner, on its own
\* Latest stored date of a ticker, for the tables a plan is computed on:
\* no row, an unparseable date, and dates around the three-day threshold.
PlanLatest ==
    {None, NanStr} \cup {strftime(strptime(strftime(InitDay)) - k) : k \in {0, 3, 4}}

\* One bar of ticker at date string s, as a stored row.
StoredBar(ticker, s) ==
    [ticker |-> ticker, date |-> s,
     open |-> "1.0", high |-> "1.0", low |-> "1.0", close |-> "1.0",
     volume |-> "1.0", is_missing |-> FALSE]

TickerOrder == <<"A", "B", "C">>

RECURSIVE TableOf(_, _)
\* The table holding one bar at f[t] for each ticker t that has a date.
TableOf(f, i) ==
    IF i > Len(TickerOrder) THEN <<>>
    ELSE (IF f[TickerOrder[i]] = None THEN <<>>
          ELSE <<StoredBar(TickerOrder[i], f[TickerOrder[i]])>>)
         \o TableOf(f, i + 1)

PlanTables == {TableOf(f, 1) : f \in [Tickers -> PlanLatest]}

SymbolLists == SeqsUpTo(Symbols, MaxSymbols)

InitPlan ==
    /\ InitCommon
    /\ max_workers = MaxWorkers
    /\ table \in PlanTables
    /\ is_initialized \in BOOLEAN

\* data_fetcher.get_update_plan(syms), as the GUI calls it.
GetUpdatePlan(syms, initRaises, queryFail) ==
    /\ plan_path = "none"
    /\ initRaises => (~is_initialized /\ ~queryFail)
    /\ plan' = get_update_plan(syms, table, today, end_date, initRaises, queryFail)
    /\ symbols' = syms
    /\ plan_day' = today
    /\ plan_path' = IF syms = <<>> THEN "empty"
                    ELSE IF initRaises THEN "init_failed"
                    ELSE IF queryFail THEN "query_failed" ELSE "query"
    /\ is_initialized' = (is_initialized \/ (syms # <<>> /\ ~initRaises))
    /\ UNCHANGED <<envVars, table, upsertVars, runVars, callerVars, storeVars, menuVars>>

NextPlan ==
    \/ Tick
    \/ \E syms \in SymbolLists, initRaises \in BOOLEAN, queryFail \in BOOLEAN :
           GetUpdatePlan(syms, initRaises, queryFail)

SpecPlan == InitPlan /\ [][NextPlan]_vars

\* ------------------------------------------------------------ fetching
\* An end-date trim that lets today itself through.
EffectiveEndAfterToday(endStr, day) ==
    IF strptime(endStr) > day THEN strftime(day - 1) ELSE endStr

\* The end date fetch_single_stock requests (lines 72-76): an end date of
\* today or later is trimmed to yesterday.
EffectiveEnd(endStr, day) ==
    IF strptime(endStr) >= day THEN strftime(day - 1) ELSE endStr

\* What the provider may do with one ticker.history(start, end) call.
ProviderKinds == {"raise", "empty", "bar_at_end", "two_bars"}

\* One row of the frame yfinance returns.
RawBar(day, price, volume) ==
    [Date |-> Timestamp(day, "Asia/Kolkata"),
     Open |-> price, High |-> price, Low |-> price, Close |-> price,
     Volume |-> volume]

\* The frame returned for a kind: a bar dated at the end of the range, or a
\* malformed bar at its start followed by a bar at its end.
ProviderRows(kind, start, end) ==
    CASE kind = "bar_at_end" -> <<RawBar(strptime(end), "1.0", "1.0")>>
      [] kind = "two_bars"   -> <<RawBar(strptime(start), "abc", "inf"),
                                  RawBar(strptime(end), "2.0", "1.0")>>
      [] OTHER               -> <<>>

\* pd.to_numeric(x, errors='coerce')
to_numeric(x) == IF x \in {"1.0", "2.0", "nan", "inf"} THEN x ELSE "nan"

\* The normalization of a returned frame (lines 93-128).
Normalize(symbol, raw) ==
    [i \in 1..Len(raw) |->
        [ticker |-> TickerOf(symbol),
         date   |-> tz_localize_none(raw[i].Date),
         open   |-> to_numeric(raw[i].Open),
         high   |-> to_numeric(raw[i].High),
         low    |-> to_numeric(raw[i].Low),
         close  |-> to_numeric(raw[i].Close),
         volume |-> to_numeric(raw[i].Volume)]]

\* Full-refresh ranges that already exclude the last configured day.
FullRefreshRangesTrimmed(syms, endStr) ==
    [s \in Range(syms) |-> <<START_DATE, strftime(strptime(endStr) - 1)>>]

\* {symbol: (self.start_date, self.end_date) for symbol in symbols} (line 152)
FullRefreshRanges(syms, endStr) ==
    [s \in Range(syms) |-> <<START_DATE, endStr>>]

\* skipped_fetches (line 187)
Skipped(n, m, fr) == IF fr THEN 0 ELSE n - m

\* A submission that asks for every symbol's history from the configured
\* start.
SubmitFromStart(todo, ranges) ==
    [i \in 1..Len(todo) |->
        [symbol  |-> todo[i],
         start   |-> START_DATE,
         end     |-> ranges[todo[i]][2],
         st      |-> "pending",
         eff_end |-> None,
         resp    |-> "none",
         data    |-> <<>>]]

\* The futures submitted at lines 192-195, none started yet.
Submit(todo, ranges) ==
    [i \in 1..Len(todo) |->
        [symbol  |-> todo[i],
         start   |-> ranges[todo[i]][1],
         end     |-> ranges[todo[i]][2],
         st      |-> "pending",
         eff_end |-> None,
         resp    |-> "none",
         data    |-> <<>>]]

\* An early return that still goes on to the pool when nothing needs a fetch.
NothingToDoNever(todo) == FALSE

\* if not symbols_to_process (line 167)
NothingToDo(todo) == todo = <<>>

\* The summary of the early return at lines 169-179.
UpToDateResult(syms, pl) ==
    [success            |-> TRUE,
     mode               |-> "incremental",
     total_symbols      |-> Len(syms),
     successful_fetches |-> 0,
     failed_fetches     |-> 0,
     skipped_fetches    |-> Len(pl.symbols_up_to_date),
     total_records      |-> 0,
     message            |-> "All data is up to date"]

\* f"{symbol}.NS" (line 55)
WithNS(cell) ==
    CASE cell = "A" -> "A.NS"
      [] cell = "B" -> "B.NS"
      [] OTHER     -> "C.NS"

RECURSIVE LoadSymbols(_, _)
\* The Symbol column without its NaN and blank cells, as symbols (lines 52-55).
LoadSymbols(cells, i) ==
    IF i > Len(cells) THEN <<>>
    ELSE (IF cells[i] \in {"nan", " "} THEN <<>> ELSE <<WithNS(cells[i])>>)
         \o LoadSymbols(cells, i + 1)

\* A loader that answers with every cell it was given, whatever the state of
\* the file.
SymbolsIgnoringState(file) == LoadSymbols(<<"A">> \o file.rows, 1)

\* get_stock_symbols (lines 38-61): a missing file, a file read_csv cannot
\* read and a file without a Symbol column all give the empty list.
get_stock_symbols(file) ==
    IF file.state # "ok" THEN <<>> ELSE LoadSymbols(file.rows, 1)

\* The update handlers of the application (run_update.py lines 59-63,
\* menu_app.py lines 291-298, main_window.py lines 484-508) call the run
\* without a symbol list and save the time of the update when it reports
\* success.  A run given its list is the function called on its own.
SavedAfter(source, success, last) ==
    IF source # "argument" /\ success THEN "saved" ELSE last

\* The companies file when no list is read from it.
NoFile == [state |-> "missing", rows |-> <<>>]

\* fetch_all_stocks_concurrent up to the submission of the tasks or to an
\* early return (lines 140-195), where its caller takes the pair.  arg is
\* the symbols argument: a list, or not given, in which case the list is
\* loaded from the companies file.
StartRun(arg, file, fr, initRaises, queryFail) ==
    LET syms == IF arg.given THEN arg.list ELSE get_stock_symbols(file)
    IN
    /\ pc = "idle"
    /\ arg.given => file = NoFile
    /\ symbol_source' = IF arg.given THEN "argument" ELSE file.state
    /\ (fr \/ syms = <<>>) => (~initRaises /\ ~queryFail)
    /\ initRaises => (~is_initialized /\ ~queryFail)
    /\ LET pl     == IF fr \/ syms = <<>> THEN plan
                     ELSE get_update_plan(syms, table, today, end_date, initRaises, queryFail)
           todo   == IF fr THEN syms
                     ELSE pl.symbols_needing_full_fetch \o pl.symbols_needing_update
           ranges == IF fr THEN FullRefreshRanges(syms, end_date) ELSE pl.update_ranges
           planned == ~fr /\ syms # <<>>
       IN  /\ symbols' = syms
           /\ full_refresh' = fr
           /\ table0' = table
           /\ plan' = pl
           /\ plan_day' = today
           /\ plan_path' = IF ~planned THEN plan_path
                           ELSE IF initRaises THEN "init_failed"
                           ELSE IF queryFail THEN "query_failed" ELSE "query"
           /\ is_initialized' = (is_initialized \/ (planned /\ ~initRaises))
           /\ IF syms = <<>>
              THEN /\ pc' = "done"
                   /\ ret' = [success |-> FALSE, result |-> [error |-> "No symbols to fetch"]]
                   /\ UNCHANGED <<symbols_to_process, symbol_date_ranges, tasks, countVars,
                                  last_update>>
              ELSE IF ~fr /\ NothingToDo(todo)
              THEN /\ pc' = "done"
                   /\ ret' = [success |-> TRUE, result |-> UpToDateResult(syms, pl)]
                   /\ last_update' = SavedAfter(symbol_source', TRUE, last_update)
                   /\ symbols_to_process' = todo
                   /\ symbol_date_ranges' = ranges
                   /\ UNCHANGED <<tasks, countVars>>
              ELSE /\ pc' = "fetching"
                   /\ symbols_to_process' = todo
                   /\ symbol_date_ranges' = ranges
                   /\ tasks' = Submit(todo, ranges)
                   /\ successful_fetches' = 0
                   /\ failed_fetches' = 0
                   /\ skipped_fetches' = Skipped(Len(syms), Len(todo), fr)
                   /\ progress' = NoProgress
                   /\ UNCHANGED <<ret, last_update>>
    /\ UNCHANGED <<envVars, table, upsertVars, all_data, requests, insert_calls,
                   storeVars, menuVars>>

\* Every task not yet taken by the loop, as if a queued or completed task
\* still held its thread.
Unyielded == {j \in 1..Len(tasks) : tasks[j].st # "yielded"}

\* The tasks that occupy a pool thread.
Running == {j \in 1..Len(tasks) : tasks[j].st = "running"}

\* A pool thread takes the next queued task and runs fetch_single_stock up to
\* the provider call (lines 68-87): the end date is trimmed, and a start
\* after the end returns None without a request.
TaskStart(i) ==
    /\ pc = "fetching"
    /\ tasks[i].st = "pending"
    /\ \A j \in 1..(i - 1) : tasks[j].st # "pending"
    /\ Cardinality(Running) < max_workers
    /\ LET end == EffectiveEnd(tasks[i].end, today)
       IN  IF StrLess(end, tasks[i].start)
           THEN /\ tasks' = [tasks EXCEPT ![i].st = "finished",
                                          ![i].eff_end = end,
                                          ![i].resp = "skipped"]
                /\ UNCHANGED requests
           ELSE /\ tasks' = [tasks EXCEPT ![i].st = "running", ![i].eff_end = end]
                /\ requests' = requests \cup
                       {[symbol |-> tasks[i].symbol, start |-> tasks[i].start,
                         end |-> end, nominal_end |-> tasks[i].end, day |-> today]}
    /\ UNCHANGED <<envVars, dbVars, upsertVars, planVars, pc, full_refresh,
                   symbols_to_process, symbol_date_ranges, countVars, all_data,
                   ret, insert_calls, table0, callerVars, storeVars, menuVars>>

\* The provider answers task i and fetch_single_stock returns (lines 87-132):
\* an exception or an empty frame gives None, rows give the normalized frame.
ProviderReturn(i, kind) ==
    /\ pc = "fetching"
    /\ tasks[i].st = "running"
    /\ tasks' = [tasks EXCEPT
                   ![i].st = "finished",
                   ![i].resp = kind,
                   ![i].data = Normalize(tasks[i].symbol,
                                         ProviderRows(kind, tasks[i].start, tasks[i].eff_end))]
    /\ UNCHANGED <<envVars, dbVars, upsertVars, planVars, pc, full_refresh,
                   symbols_to_process, symbol_date_ranges, countVars, all_data,
                   ret, requests, insert_calls, table0, callerVars, storeVars, menuVars>>

\* Whether a None result counts as a failure (lines 209-214): only in a full
\* refresh.
FailsOnNone(fr) == fr

\* as_completed yields the finished future i and the loop body runs (lines
\* 199-223), ending with the call of the progress callback.
Drain(i) ==
    /\ pc = "fetching"
    /\ tasks[i].st = "finished"
    /\ LET data == tasks[i].data
           succ == IF data # <<>> THEN successful_fetches + 1 ELSE successful_fetches
           fail == IF data = <<>> /\ FailsOnNone(full_refresh)
                   THEN failed_fetches + 1 ELSE failed_fetches
       IN  /\ all_data' = IF data # <<>> THEN Append(all_data, data) ELSE all_data
           /\ successful_fetches' = succ
           /\ failed_fetches' = fail
           /\ progress' = update_callback(progress, succ, fail, Len(symbols_to_process))
    /\ tasks' = [tasks EXCEPT ![i].st = "yielded"]
    /\ UNCHANGED <<envVars, dbVars, upsertVars, planVars, pc, full_refresh,
                   symbols_to_process, symbol_date_ranges, skipped_fetches,
                   ret, requests, insert_calls, table0, callerVars, storeVars, menuVars>>

\* A concatenation that keeps the first frame only.
ConcatFirstOnly(frames, i) ==
    IF i > Len(frames) THEN <<>> ELSE frames[i]

RECURSIVE Concat(_, _)
\* pd.concat(all_data, ignore_index=True)
Concat(frames, i) ==
    IF i > Len(frames) THEN <<>> ELSE frames[i] \o Concat(frames, i + 1)

\* len(combined_data) (line 253)
TotalRecords(frames) == Len(Concat(frames, 1))

\* The summary built at lines 246-256 (the timing fields are left out).
RunResult(success) ==
    [success            |-> success,
     mode               |-> IF full_refresh THEN "full_refresh" ELSE "incremental",
     total_symbols      |-> Len(symbols),
     successful_fetches |-> successful_fetches,
     failed_fetches     |-> failed_fetches,
     skipped_fetches    |-> skipped_fetches,
     total_records      |-> TotalRecords(all_data)]

\* An except clause that lets the exception through.
RunExceptMissing(o) ==
    [raised |-> o.raised, tbl |-> o.tbl, success |-> o.ret,
     result |-> RunResult(o.ret)]

\* The try/except around the combine-and-insert step (lines 227-268): an
\* exception becomes the error return of line 268, a returned bool becomes
\* the summary of lines 246-264.
RunExcept(o) ==
    IF o.raised
    THEN [raised |-> FALSE, tbl |-> o.tbl, success |-> FALSE,
          result |-> [error |-> "Data processing failed"]]
    ELSE [raised |-> FALSE, tbl |-> o.tbl, success |-> o.ret,
          result |-> RunResult(o.ret)]

\* db_manager.insert_dataframe_chunked(combined_data) as the run calls it
\* (line 241): the lazy initialize() of lines 113-114 stands outside the
\* try of the insert, so its exception leaves the call.
InsertCall(tbl, combined, initRaises, connectFail, commitFail) ==
    IF initRaises
    THEN [raised |-> TRUE, tbl |-> tbl, ret |-> FALSE]
    ELSE LET r == insert_dataframe_chunked(tbl, combined, FALSE, connectFail, commitFail)
         IN  [raised |-> FALSE, tbl |-> r.tbl, ret |-> r.ret]

\* Every future has been submitted, without waiting for its completion.
PoolSubmitted == \A j \in 1..Len(tasks) : tasks[j].st # "pending"

\* Every submitted future has completed and has been taken by as_completed.
PoolDrained == \A j \in 1..Len(tasks) : tasks[j].st = "yielded"

\* The pool has drained: the frames are combined and written, the run
\* returns (lines 225-274) and its caller takes the pair.  initRaises: the
\* lazy initialize() inside the insert raises and is caught at line 266.
Persist(initRaises, connectFail, commitFail) ==
    /\ pc = "fetching"
    /\ PoolDrained
    /\ initRaises => (~is_initialized /\ all_data # <<>>)
    /\ (initRaises \/ all_data = <<>>) => (~connectFail /\ commitFail = 0)
    /\ connectFail => commitFail = 0
    /\ commitFail <= NumChunks(Concat(all_data, 1))
    /\ IF all_data = <<>>
       THEN /\ pc' = "done"
            /\ ret' = [success |-> FALSE,
                       result  |-> [error |-> "No data fetched successfully",
                                    failed_fetches |-> failed_fetches]]
            /\ UNCHANGED <<dbVars, insert_calls, last_update, failure>>
       ELSE LET o == RunExcept(InsertCall(table, Concat(all_data, 1), initRaises,
                                          connectFail, commitFail))
            IN  /\ insert_calls' = insert_calls + 1
                /\ pc' = IF o.raised THEN "raised" ELSE "done"
                /\ table' = o.tbl
                /\ is_initialized' = (is_initialized \/ ~initRaises)
                /\ ret' = IF o.raised THEN ret
                          ELSE [success |-> o.success, result |-> o.result]
                /\ last_update' = SavedAfter(symbol_source, ~o.raised /\ o.success,
                                             last_update)
                /\ failure' = StorageFailure(Concat(all_data, 1), initRaises,
                                              connectFail, commitFail)
    /\ UNCHANGED <<envVars, df, df_is_missing, subs, before, once, oks, planVars,
                   full_refresh, symbols_to_process,
                   symbol_date_ranges, tasks, countVars, all_data,
                   requests, table0, symbol_source, storeVars, menuVars>>

\* ------------------------------------------------------------ the run
SymbolOrder == <<"A.NS", "B.NS", "C.NS">>

\* The symbol lists a run is given: the first n symbols, and a list naming
\* one symbol twice.
RunSymbolLists ==
    {SubSeq(SymbolOrder, 1, n) : n \in 0..Min(MaxRunSymbols, Len(SymbolOrder))}
    \cup {<<"A.NS", "A.NS">>}

\* Latest stored date of each ticker when a run starts: A has no row or a
\* date on either side of the three-day threshold, B is stored on either
\* side of it, C has no row.
RunLatest(t) ==
    CASE t = "A" -> {None} \cup {strftime(strptime(strftime(InitDay)) - k) : k \in {3, 4}}
      [] t = "B" -> {strftime(strptime(strftime(InitDay)) - k) : k \in {3, 4}}
      [] OTHER   -> {None}

RunTables ==
    {TableOf(f, 1) : f \in {g \in [Tickers -> PlanLatest] : \A t \in Tickers : g[t] \in RunLatest(t)}}

\* The symbols argument of a run: a list, or none.
RunArgs ==
    {[given |-> TRUE, list |-> l] : l \in RunSymbolLists}
    \cup {[given |-> FALSE, list |-> <<>>]}

\* The companies file: missing, unreadable, without a Symbol column, with a
\* header only, and with one name among a NaN and a blank cell.
CompaniesFiles ==
    {[state |-> st, rows |-> <<>>] :
        st \in {"missing", "unreadable", "no_symbol_column", "ok"}}
    \cup {[state |-> "ok", rows |-> <<"nan", "A", " ">>]}

Init ==
    /\ InitCommon
    /\ max_workers \in {1, MaxWorkers}
    /\ table \in RunTables
    /\ is_initialized \in BOOLEAN

Next ==
    \/ Tick
    \/ \E arg \in RunArgs, file \in CompaniesFiles, fr \in BOOLEAN,
          initRaises \in BOOLEAN, queryFail \in BOOLEAN :
           StartRun(arg, file, fr, initRaises, queryFail)
    \/ \E i \in 1..Len(tasks) : TaskStart(i)
    \/ \E i \in 1..Len(tasks), kind \in ProviderKinds : ProviderReturn(i, kind)
    \/ \E i \in 1..Len(tasks) : Drain(i)
    \/ \E initRaises \in BOOLEAN, connectFail \in BOOLEAN, commitFail \in 0..MaxChunks :
           Persist(initRaises, connectFail, commitFail)

Spec == Init /\ [][Next]_vars

\* --------------------------------------------- the run under scheduling
\* The runs whose progress is followed: one or two symbols, in either mode,
\* on an initialized database where B is stored four days back.
LiveLists == {<<"A.NS">>, <<"A.NS", "B.NS">>}

LiveArgs == {[given |-> TRUE, list |-> l] : l \in LiveLists}

InitLive ==
    /\ InitCommon
    /\ max_workers \in {1, 2}
    /\ table = <<StoredBar("B", strftime(strptime(strftime(InitDay)) - 4))>>
    /\ is_initialized = TRUE

\* One step of a run that has submitted its tasks: a pool thread takes a
\* queued task, a provider call returns or raises, the as_completed loop
\* takes a finished future, or the code after the pool runs.
RunStep ==
    \/ \E i \in 1..Len(tasks) : TaskStart(i)
    \/ \E i \in 1..Len(tasks), kind \in ProviderKinds : ProviderReturn(i, kind)
    \/ \E i \in 1..Len(tasks) : Drain(i)
    \/ \E connectFail \in BOOLEAN : Persist(FALSE, connectFail, 0)

NextLive ==
    \/ \E arg \in LiveArgs, fr \in BOOLEAN : StartRun(arg, NoFile, fr, FALSE, FALSE)
    \/ RunStep

\* Threads are not starved and every provider call ends, so a run that can
\* take a step eventually takes one.
SpecLive == InitLive /\ [][NextLive]_vars /\ WF_vars(RunStep)

\* ------------------------------------- the store over a session of operations
\* A delete that also removes the rows of the tickers that were not selected.
DeleteOtherTickers(tbl, tickers) ==
    SelectSeq(tbl, LAMBDA r : r.ticker \in tickers)

\* DELETE FROM stock_data WHERE ticker = :ticker, for each of the tickers.
DeleteTickers(tbl, tickers) ==
    SelectSeq(tbl, LAMBDA r : r.ticker \notin tickers)

\* The tickers a purge can select on the status page.
PurgeTickers == {"A", "B"}

\* The purge of the status page (stock_status_page.py lines 622-646): one
\* DELETE per selected ticker on one connection, committed once at the end.
\* failed: the tickers whose DELETE raises, which is caught per ticker;
\* initRaises, commitFails: initialize(), connect() or commit() raises, which
\* the outer except catches and which leaves every row in place.  The page
\* stays usable while an update runs; the tasks of a run do not touch the
\* table, so a purge during a run is taken before its plan or before its
\* write.
Purge(selected, failed, initRaises, commitFails) ==
    /\ ops < MaxOps
    /\ pc \in {"idle", "done"} \/ (pc = "fetching" /\ PoolDrained)
    /\ selected # {}
    /\ failed \subseteq selected
    /\ initRaises => (~is_initialized /\ failed = {} /\ ~commitFails)
    /\ LET committed == ~initRaises /\ ~commitFails
       IN  /\ table' = IF committed THEN DeleteTickers(table, selected \ failed)
                       ELSE table
           /\ purge' = [n |-> purge.n + 1, selected |-> selected,
                        failed |-> failed, committed |-> committed]
    /\ is_initialized' = (is_initialized \/ ~initRaises)
    /\ ops' = ops + 1
    /\ UNCHANGED <<envVars, upsertVars, planVars, runVars, callerVars, menuVars>>

\* db_manager.insert_dataframe_chunked(d) called on its own, any number of
\* times.  initRaises: the lazy initialize() raises and leaves the call.
Write(d, initRaises, connectFail, commitFail) ==
    /\ ops < MaxOps
    /\ pc = "idle"
    /\ initRaises => (~is_initialized /\ ~connectFail /\ commitFail = 0)
    /\ connectFail => commitFail = 0
    /\ table' = InsertCall(table, d, initRaises, connectFail, commitFail).tbl
    /\ is_initialized' = (is_initialized \/ ~initRaises)
    /\ ops' = ops + 1
    /\ UNCHANGED <<envVars, upsertVars, planVars, runVars, callerVars, purge,
                   menuVars>>

\* The run has returned and the next call of fetch_all_stocks_concurrent
\* starts with fresh locals (lines 134-137).
NextCall ==
    /\ pc = "done"
    /\ ops < MaxOps
    /\ ops' = ops + 1
    /\ pc' = "idle" /\ full_refresh' = FALSE
    /\ symbols' = <<>> /\ plan' = EmptyPlan(0) /\ plan_path' = "none"
    /\ plan_day' = InitDay
    /\ symbols_to_process' = <<>>
    /\ symbol_date_ranges' = [s \in {} |-> <<>>]
    /\ tasks' = <<>>
    /\ successful_fetches' = 0 /\ failed_fetches' = 0 /\ skipped_fetches' = 0
    /\ progress' = NoProgress
    /\ all_data' = <<>>
    /\ ret' = [success |-> FALSE, result |-> [s \in {} |-> 0]]
    /\ requests' = {}
    /\ insert_calls' = 0
    /\ table0' = <<>>
    /\ symbol_source' = "none"
    /\ UNCHANGED <<envVars, dbVars, upsertVars, last_update, purge, menuVars>>

\* The runs of a session are those of the update handlers: the list is
\* loaded from the companies file.
StoreArgs == {[given |-> FALSE, list |-> <<>>]}

StoreFiles == {NoFile, [state |-> "ok", rows |-> <<"nan", "A", " ">>]}

\* Batches written directly: up to two of the rows of the upsert harness.
StoreBatches == SeqsUpTo(UpsertRows, 2)

InitStore ==
    /\ InitCommon
    /\ max_workers = MaxWorkers
    /\ table \in {<<>>, TableOf([t \in Tickers |-> strftime(1)], 1)}
    /\ is_initialized \in BOOLEAN

NextStore ==
    \/ \E selected \in SUBSET PurgeTickers, failed \in SUBSET PurgeTickers,
          initRaises \in BOOLEAN, commitFails \in BOOLEAN :
           Purge(selected, failed, initRaises, commitFails)
    \/ \E d \in StoreBatches, initRaises \in BOOLEAN, connectFail \in BOOLEAN :
           \E commitFail \in 0..NumChunks(d) :
               Write(d, initRaises, connectFail, commitFail)
    \/ NextCall
    \/ \E arg \in StoreArgs, file \in StoreFiles, fr \in BOOLEAN,
          initRaises \in BOOLEAN, queryFail \in BOOLEAN :
           StartRun(arg, file, fr, initRaises, queryFail)
    \/ \E i \in 1..Len(tasks) : TaskStart(i)
    \/ \E i \in 1..Len(tasks), kind \in ProviderKinds : ProviderReturn(i, kind)
    \/ \E i \in 1..Len(tasks) : Drain(i)
    \/ \E initRaises \in BOOLEAN, connectFail \in BOOLEAN, commitFail \in 0..MaxChunks :
           Persist(initRaises, connectFail, commitFail)

SpecStore == InitStore /\ [][NextStore]_vars

\* ------------------------------------------------------- the menu-bar app
\* NiftyMenuBarApp (menubar/menu_app.py).  Menu handlers run on the main
\* thread, one at a time; each accepted request starts a daemon thread that
\* runs fetch_all_stocks_concurrent.  The run itself is followed here by
\* its outcome only.
MaxClicks == 3

UpdateOutcomes == {"success", "failed", "raised"}

\* The update threads that are inside the try block of update(), after
\* line 276.
RunningUpdates == {t \in 1..Len(updates) : updates[t].st = "running"}

\* "Update Data" is clicked (lines 254-267): the guard is read; if set the
\* request is answered with "Update in Progress", else the confirmation
\* alert opens and blocks the main thread.
UpdateClicked ==
    /\ menu = "idle"
    /\ Len(updates) + rejected < MaxClicks
    /\ IF is_updating
       THEN /\ rejected' = rejected + 1
            /\ UNCHANGED menu
       ELSE /\ menu' = "confirm"
            /\ UNCHANGED rejected
    /\ UNCHANGED <<is_updating, updates>>
    /\ UNCHANGED <<envVars, dbVars, upsertVars, planVars, runVars, callerVars, storeVars>>

\* The confirmation alert is answered (lines 269-270, 329-330): on "Update"
\* start_update_background creates and starts the thread and returns.
ConfirmAnswered(ok) ==
    /\ menu = "confirm"
    /\ menu' = "idle"
    /\ updates' = IF ok THEN Append(updates, [st |-> "started", outcome |-> "none"])
                  ELSE updates
    /\ UNCHANGED <<is_updating, rejected>>
    /\ UNCHANGED <<envVars, dbVars, upsertVars, planVars, runVars, callerVars, storeVars>>

\* Thread t is scheduled and enters update() (lines 274-291): it sets the
\* flag, posts the start notification and calls the run.
UpdateBegins(t) ==
    /\ updates[t].st = "started"
    /\ is_updating' = TRUE
    /\ updates' = [updates EXCEPT ![t].st = "running"]
    /\ UNCHANGED <<menu, rejected>>
    /\ UNCHANGED <<envVars, dbVars, upsertVars, planVars, runVars, callerVars, storeVars>>

\* The run of thread t returns success, returns failure, or something in
\* the try block raises (lines 291-327); the finally clause clears the flag
\* on every path and the thread ends.
UpdateEnds(t, outcome) ==
    /\ updates[t].st = "running"
    /\ is_updating' = FALSE
    /\ updates' = [updates EXCEPT ![t].st = "exited", ![t].outcome = outcome]
    /\ UNCHANGED <<menu, rejected>>
    /\ UNCHANGED <<envVars, dbVars, upsertVars, planVars, runVars, callerVars, storeVars>>

InitMenu ==
    /\ InitCommon
    /\ max_workers = MaxWorkers
    /\ table = <<>>
    /\ is_initialized = FALSE

NextMenu ==
    \/ UpdateClicked
    \/ \E ok \in BOOLEAN : ConfirmAnswered(ok)
    \/ \E t \in 1..Len(updates) : UpdateBegins(t)
    \/ \E t \in 1..Len(updates), outcome \in UpdateOutcomes : UpdateEnds(t, outcome)

SpecMenu == InitMenu /\ [][NextMenu]_vars

\* ------------------------------------------------------------------ claims
SameContents(a, b) == Len(a) = Len(b) /\ Range(a) = Range(b)

\* C1: submitting the same batch (same is_missing) to insert_dataframe_chunked
\* twice, each call running without a storage failure, leaves the table as
\* one submission leaves it: the same row count and the same rows (keys and
\* open/high/low/close/volume/is_missing values), whatever the table held.
C1_UpsertIdempotent ==
    (subs = 2 /\ oks = <<TRUE, TRUE>>) => SameContents(table, once)

\* C1 witness: a batch spanning two chunks, holding one key twice, submitted
\* twice without failure, whose first submission changed the table.
C1_Witness ==
    /\ subs = 2 /\ oks = <<TRUE, TRUE>>
    /\ Len(df) > chunk_size
    /\ \E i, j \in 1..Len(df) :
          i < j /\ SameKey(RowParams(df[i], FALSE), RowParams(df[j], FALSE))
    /\ before # <<>>
    /\ ~SameContents(before, once)

Count(q, x) == Cardinality({i \in 1..Len(q) : q[i] = x})

PlanLists(pl) ==
    pl.symbols_needing_full_fetch \o pl.symbols_needing_update \o pl.symbols_up_to_date

\* C2: the three lists of a plan are pairwise disjoint and together hold each
\* symbol of the input exactly as often as the input does, whichever way the
\* plan was computed (query answered, query failed, initialization failed).
C2_PlanPartition ==
    plan_path # "none" =>
        /\ Range(plan.symbols_needing_full_fetch) \cap Range(plan.symbols_needing_update) = {}
        /\ Range(plan.symbols_needing_full_fetch) \cap Range(plan.symbols_up_to_date) = {}
        /\ Range(plan.symbols_needing_update) \cap Range(plan.symbols_up_to_date) = {}
        /\ \A s \in Symbols : Count(PlanLists(plan), s) = Count(symbols, s)

\* C2 witness: a plan of three symbols with one symbol in each list.
C2_Witness ==
    /\ plan_path = "query"
    /\ Len(plan.symbols_needing_full_fetch) = 1
    /\ Len(plan.symbols_needing_update) = 1
    /\ Len(plan.symbols_up_to_date) = 1

\* The latest stored date of a symbol is k days before the configured end.
LatestIsEndMinus(s, k) ==
    LET latest == MaxDate(table, TickerOf(s), 1, None)
    IN  /\ latest # None
        /\ Parseable(latest)
        /\ strptime(latest) = strptime(end_date) - k

\* C3: in a plan computed from the answered latest-date query, a symbol whose
\* latest stored date is the configured end date - 3 days is up-to-date, and
\* one whose latest stored date is the configured end date - 4 days needs an
\* incremental fetch with range [latest + 1 day, configured end date].
C3_GapBoundary ==
    plan_path = "query" =>
        \A s \in Range(symbols) :
            /\ LatestIsEndMinus(s, 3) =>
                   /\ s \in Range(plan.symbols_up_to_date)
                   /\ s \notin DOMAIN plan.update_ranges
            /\ LatestIsEndMinus(s, 4) =>
                   /\ s \in Range(plan.symbols_needing_update)
                   /\ s \in DOMAIN plan.update_ranges
                   /\ plan.update_ranges[s] =
                          <<strftime(strptime(end_date) - 3), end_date>>

\* C3 witness: one plan holds a symbol on each side of the threshold.
C3_Witness ==
    /\ plan_path = "query"
    /\ \E s, t \in Range(symbols) :
          /\ LatestIsEndMinus(s, 3) /\ LatestIsEndMinus(t, 4)
          /\ s \in Range(plan.symbols_up_to_date)
          /\ t \in Range(plan.symbols_needing_update)

HasRows(tbl, ticker) == \E i \in 1..Len(tbl) : tbl[i].ticker = ticker

\* C4: a symbol with no stored rows is classified needs-full-fetch, with
\* range [configured start, configured end], whatever the other symbols hold.
C4_NoDataFullFetch ==
    plan_path \in {"query", "query_failed", "init_failed"} =>
        \A s \in Range(symbols) :
            ~HasRows(table, TickerOf(s)) =>
                /\ s \in Range(plan.symbols_needing_full_fetch)
                /\ s \notin Range(plan.symbols_needing_update)
                /\ s \notin Range(plan.symbols_up_to_date)
                /\ s \in DOMAIN plan.update_ranges
                /\ plan.update_ranges[s] = <<START_DATE, end_date>>

\* C4 witness: a symbol without rows planned next to an up-to-date symbol and
\* a symbol needing an incremental fetch.
C4_Witness ==
    /\ plan_path = "query"
    /\ \E s \in Range(symbols) :
          ~HasRows(table, TickerOf(s)) /\ s \in Range(plan.symbols_needing_full_fetch)
    /\ plan.symbols_needing_update # <<>>
    /\ plan.symbols_up_to_date # <<>>

C6_NoRequestForToday ==
    \A r \in requests : Parseable(r.end) /\ strptime(r.end) < r.day

\* C6 witness: requests were issued for a range ending today (trimmed) and,
\* after midnight, for a range ending before the current day (left as is).
C6_Witness ==
    /\ \E r \in requests : strptime(r.nominal_end) = r.day /\ strptime(r.end) = r.day - 1
    /\ \E r \in requests : strptime(r.nominal_end) < r.day /\ r.end = r.nominal_end

\* C7 as claimed: the summary of a run over N >= 1 symbols carries the three
\* counts and they sum to N.
C7_CountsSumToN ==
    (pc = "done" /\ symbols # <<>>) =>
        /\ {"successful_fetches", "failed_fetches", "skipped_fetches"} \subseteq DOMAIN ret.result
        /\ ret.result.successful_fetches + ret.result.failed_fetches
               + ret.result.skipped_fetches = Len(symbols)

RECURSIVE RowsReturned(_)
\* The number of normalized rows the fetches of tasks i.. returned.
RowsReturned(i) ==
    IF i > Len(tasks) THEN 0 ELSE Len(tasks[i].data) + RowsReturned(i + 1)

\* C8 as claimed: the summary of a run over N >= 1 symbols carries
\* total_records, and it is the number of normalized rows returned over all
\* symbols.
C8_TotalRecordsIsSum ==
    (pc = "done" /\ symbols # <<>>) =>
        /\ "total_records" \in DOMAIN ret.result
        /\ ret.result.total_records = RowsReturned(1)

\* C9: an incremental run in which the plan classifies every symbol as
\* up-to-date returns success with total_records = 0, submits no task, issues
\* no request, never calls insert_dataframe_chunked and leaves the table as
\* it was.
C9_ZeroUpdateNoWrite ==
    (/\ pc = "done" /\ ~full_refresh /\ symbols # <<>>
     /\ Len(plan.symbols_up_to_date) = Len(symbols)) =>
        /\ ret.success
        /\ ret.result.success
        /\ ret.result.total_records = 0
        /\ tasks = <<>>
        /\ requests = {}
        /\ insert_calls = 0
        /\ table = table0

\* C9 witness: a finished incremental run over two stored symbols, both
\* up-to-date.
C9_Witness ==
    /\ pc = "done" /\ ~full_refresh
    /\ Cardinality(Range(symbols)) = 2
    /\ Len(plan.symbols_up_to_date) = 2
    /\ ret.success
    /\ ret.result.skipped_fetches = 2

\* C10 as claimed: when the provider raises for exactly one fetched symbol
\* and returns well-formed rows for the others, and the write succeeds, the
\* summary has successful_fetches = N - 1 and failed_fetches = 1 (N the
\* number of fetched symbols, all distinct) and the rows of the others are
\* stored.
C10_PartialFailureIsolation ==
    (/\ pc = "done" /\ ret.success /\ tasks # <<>>
     /\ Cardinality({tasks[i].symbol : i \in 1..Len(tasks)}) = Len(tasks)
     /\ Cardinality({i \in 1..Len(tasks) : tasks[i].resp = "raise"}) = 1
     /\ \A i \in 1..Len(tasks) : tasks[i].resp \in {"raise", "bar_at_end"}) =>
        /\ ret.result.successful_fetches = Len(tasks) - 1
        /\ ret.result.failed_fetches = 1
        /\ \A i \in 1..Len(tasks) :
              \A k \in 1..Len(tasks[i].data) :
                  RowParams(tasks[i].data[k], FALSE) \in Range(table)

\* C11: in every state of a session of direct writes, purges and fetch runs,
\* the table holds at most one row per (ticker, date): no two positions of
\* the table carry the same ticker and the same date.
C11_UniqueKey ==
    \A i, j \in 1..Len(table) :
        (table[i].ticker = table[j].ticker /\ table[i].date = table[j].date) => i = j

\* C11 witness: after a purge and a direct write, a run has written as well;
\* the row of ticker C shows the table started with a bar of A at the first
\* date, and that key now carries the prices of the later write.
C11_Witness ==
    /\ purge.n = 1 /\ ops = 2
    /\ pc = "done" /\ insert_calls = 1 /\ ret.success
    /\ \E i \in 1..Len(table) : table[i].ticker = "C"
    /\ \E i \in 1..Len(table) :
           /\ table[i].ticker = "A" /\ table[i].date = strftime(1)
           /\ table[i].open = "2.0"
    /\ \E i \in 1..Len(table) :
           table[i].ticker = "A" /\ table[i].date # strftime(1)

Keys(tbl) == {<<tbl[i].ticker, tbl[i].date>> : i \in 1..Len(tbl)}

\* C12: no step of a plan/fetch cycle (nor a direct write) removes a stored
\* (ticker, date) key, whether the run succeeds or fails: the keys after the
\* step include the keys before it.  Only a purge removes rows: it adds
\* none, removes rows of selected tickers only, and when it meets no failure
\* it leaves exactly the rows of the tickers that were not selected.
C12_OnlyPurgeRemoves ==
    [][IF purge'.n = purge.n
       THEN Keys(table) \subseteq Keys(table')
       ELSE /\ Range(table') \subseteq Range(table)
            /\ \A r \in Range(table) \ Range(table') : r.ticker \in purge'.selected
            /\ (purge'.committed /\ purge'.failed = {}) =>
                   table' = SelectSeq(table, LAMBDA r : r.ticker \notin purge'.selected)]_vars

\* C12 witness: the table started with bars of A, B and C; a purge of B that
\* met no failure has removed B's row and left C's, and a run has written
\* new bars for A on top of the stored one.
C12_Witness ==
    /\ purge.n = 1 /\ purge.selected = {"B"} /\ purge.committed /\ purge.failed = {}
    /\ pc = "done" /\ insert_calls = 1 /\ ret.success
    /\ ~\E i \in 1..Len(table) : table[i].ticker = "B"
    /\ \E i \in 1..Len(table) : table[i].ticker = "C"
    /\ Cardinality({i \in 1..Len(table) : table[i].ticker = "A"}) >= 2

\* C13 as claimed: an incremental run that obtains no new row because
\* everything is current (every symbol was planned up to date, or every
\* fetch that was issued came back without rows) returns success = true
\* with the message "All data is up to date".
C13_UpToDateReported ==
    (/\ pc = "done" /\ ~full_refresh /\ symbols # <<>>
     /\ \A i \in 1..Len(tasks) : tasks[i].resp \in {"empty", "skipped"}) =>
        /\ ret.success
        /\ "message" \in DOMAIN ret.result
        /\ ret.result.message = "All data is up to date"

\* C14 as claimed: a run ends with success = false only from planning (the
\* symbol list is empty or could not be read) or from persisting (the insert
\* was called and failed); fetch outcomes alone never make the run fail.
C14_FailedOnlyFromPlanOrPersist ==
    (pc = "done" /\ ~ret.success) => (symbols = <<>> \/ insert_calls = 1)

\* C15: within a run the table is written, and insert_dataframe_chunked is
\* called, only in one step: the step taken when every submitted task has
\* completed and its result has been collected; that step is the single
\* insert call of the run, it carries the accumulated rows, and it issues no
\* provider request.  No step of a worker task changes the table, and once
\* the insert has been called no task changes and no request is issued.
C15_WriteAfterPoolDrained ==
    [][/\ (table' # table \/ insert_calls' # insert_calls) =>
            /\ pc = "fetching"
            /\ pc' \in {"done", "raised"}
            /\ \A j \in 1..Len(tasks) : tasks[j].st = "yielded"
            /\ all_data # <<>>
            /\ insert_calls = 0
            /\ insert_calls' = 1
            /\ tasks' = tasks
            /\ requests' = requests
       /\ insert_calls = 1 => (tasks' = tasks /\ requests' = requests)]_vars

C15_Witness ==
    /\ pc = "done"
    /\ insert_calls = 1
    /\ ret.success
    /\ table # table0
    /\ Len(tasks) = 2
    /\ \A j \in 1..Len(tasks) : tasks[j].st = "yielded" /\ tasks[j].data # <<>>
    /\ Cardinality(requests) = 2

\* C16 as claimed: the run marker is saved only after a successful run that
\* obtained and stored at least one row; it is never saved after a failed
\* run or after a run that found everything up to date.
C16_MarkerOnlyAfterProductiveRun ==
    last_update = "saved" => (pc = "done" /\ ret.success /\ insert_calls = 1)

\* C17: whatever the provider does for each symbol (rows, an empty frame, an
\* exception) and whichever rows fail to insert, no exception leaves
\* fetch_all_stocks_concurrent: the run ends by returning a pair of a
\* boolean and a dict that is either an error dict or a summary.  A symbol
\* whose fetch raised yields no frame and does not stop the run, and when
\* the write succeeds the rows of the other symbols that can be inserted are
\* stored even though a row of the same batch raised.
C17_NoExceptionEscapes ==
    /\ pc # "raised"
    /\ pc = "done" =>
          /\ DOMAIN ret = {"success", "result"}
          /\ ret.success \in BOOLEAN
          /\ ("error" \in DOMAIN ret.result \/ "total_symbols" \in DOMAIN ret.result)
          /\ \A j \in 1..Len(tasks) :
                /\ tasks[j].st = "yielded"
                /\ tasks[j].resp = "raise" => tasks[j].data = <<>>
          /\ (insert_calls = 1 /\ ret.success) =>
                \A j \in 1..Len(tasks) : \A k \in 1..Len(tasks[j].data) :
                    ~RowRaises(tasks[j].data[k]) =>
                        <<tasks[j].data[k].ticker, DateToStr(tasks[j].data[k].date)>>
                            \in Keys(table)

C17_Witness ==
    /\ pc = "done"
    /\ insert_calls = 1
    /\ ret.success
    /\ \E j \in 1..Len(tasks) : tasks[j].resp = "raise"
    /\ \E j \in 1..Len(tasks) :
          /\ tasks[j].resp = "two_bars"
          /\ \E k \in 1..Len(tasks[j].data) : RowRaises(tasks[j].data[k])

\* C18 as claimed: when the final bulk write fails, the run returns
\* success = false and its summary carries both an error message and the
\* results computed in memory (the successful, failed and skipped counts and
\* the total number of rows).
C18_FailedWriteSummary ==
    (pc = "done" /\ insert_calls = 1 /\ ~ret.success) =>
        {"error", "successful_fetches", "failed_fetches", "skipped_fetches",
         "total_records"} \subseteq DOMAIN ret.result

\* C19 as claimed: when the storage initialisation triggered by the
\* planner's latest-date query fails, the run does not proceed: it issues no
\* provider fetch, and the failure reaches the caller rather than being
\* swallowed (the run does not go on to fetching, and does not end in
\* success).
C19_InitFailureStopsRun ==
    plan_path = "init_failed" =>
        /\ pc # "fetching"
        /\ requests = {}
        /\ pc = "done" => ~ret.success

\* C20: when the symbol file is missing, cannot be read or has no Symbol
\* column, the run fails at once: it returns success = false with an error,
\* the planner is not run, the database is neither initialised, queried nor
\* written, no task is submitted, no provider request is issued and the run
\* marker is left alone.
C20_BadSourceFailsImmediately ==
    [][symbol_source' \in {"missing", "unreadable", "no_symbol_column"} =>
          /\ pc' = "done"
          /\ ~ret'.success
          /\ ret'.result = [error |-> "No symbols to fetch"]
          /\ symbols' = <<>>
          /\ plan_path' = "none"
          /\ plan' = plan
          /\ tasks' = <<>>
          /\ requests' = {}
          /\ insert_calls' = 0
          /\ table' = table
          /\ is_initialized' = is_initialized
          /\ last_update' = last_update]_vars

C20_Witness ==
    /\ pc = "done"
    /\ symbol_source = "no_symbol_column"
    /\ ~ret.success
    /\ "error" \in DOMAIN ret.result
    /\ table # <<>>
    /\ ~is_initialized

\* C23: in a plan computed from the answered latest-date query, on whatever
\* day it is computed, a symbol with stored rows and a parseable latest date
\* is up-to-date (and has no range) when latest + 1 day is after the
\* configured end date or the configured end date is at most 3 days after
\* latest; otherwise it needs an incremental fetch with the range
\* [latest + 1 day, configured end date].
C23_DecisionByConfiguredEnd ==
    plan_path = "query" =>
        \A s \in Range(symbols) :
            LET latest == MaxDate(table, TickerOf(s), 1, None)
            IN  (latest # None /\ Parseable(latest)) =>
                    LET l == strptime(latest)
                        e == strptime(end_date)
                    IN  IF l + 1 > e \/ e - l <= 3
                        THEN /\ s \in Range(plan.symbols_up_to_date)
                             /\ s \notin Range(plan.symbols_needing_update)
                             /\ s \notin Range(plan.symbols_needing_full_fetch)
                             /\ s \notin DOMAIN plan.update_ranges
                        ELSE /\ s \in Range(plan.symbols_needing_update)
                             /\ s \notin Range(plan.symbols_up_to_date)
                             /\ s \notin Range(plan.symbols_needing_full_fetch)
                             /\ plan.update_ranges[s] = <<strftime(l + 1), end_date>>

\* C23 witness: a plan computed the day after the process started, holding a
\* symbol whose latest date is the configured end date, one three days
\* before it and one four days before it.
C23_Witness ==
    /\ plan_path = "query"
    /\ plan_day = InitDay + 1
    /\ end_date = strftime(InitDay)
    /\ \E s, t, u \in Range(symbols) :
          /\ LatestIsEndMinus(s, 0) /\ s \in Range(plan.symbols_up_to_date)
          /\ LatestIsEndMinus(t, 3) /\ t \in Range(plan.symbols_up_to_date)
          /\ LatestIsEndMinus(u, 4) /\ u \in Range(plan.symbols_needing_update)

\* C27: in a plan computed from the answered latest-date query, a symbol
\* whose latest stored date cannot be parsed ('nan') needs a full fetch with the
\* range [configured start, configured end] and is in no other list; and
\* next to such a symbol every other symbol is still classified by its own
\* rows: full fetch without rows, otherwise up-to-date or incremental by its
\* own latest date.
C27_UnparseableFullFetch ==
    plan_path = "query" =>
        \A s \in Range(symbols) :
            LET latest == MaxDate(table, TickerOf(s), 1, None)
            IN  latest = NanStr =>
                   /\ s \in Range(plan.symbols_needing_full_fetch)
                   /\ s \notin Range(plan.symbols_up_to_date)
                   /\ s \notin Range(plan.symbols_needing_update)
                   /\ plan.update_ranges[s] = <<START_DATE, end_date>>
                   /\ \A t \in Range(symbols) \ {s} :
                         LET lt == MaxDate(table, TickerOf(t), 1, None)
                         IN  IF lt = None \/ lt = NanStr
                             THEN t \in Range(plan.symbols_needing_full_fetch)
                             ELSE IF strptime(end_date) - strptime(lt) > 3
                             THEN /\ t \in Range(plan.symbols_needing_update)
                                  /\ plan.update_ranges[t][1] = strftime(strptime(lt) + 1)
                             ELSE t \in Range(plan.symbols_up_to_date)

\* C27 witness: a plan of three symbols, one with an unparseable latest date
\* planned for a full fetch, one up-to-date and one needing an update.
C27_Witness ==
    /\ plan_path = "query"
    /\ Len(symbols) = 3
    /\ \E s \in Range(symbols) :
          /\ MaxDate(table, TickerOf(s), 1, None) = NanStr
          /\ plan.symbols_needing_full_fetch = <<s>>
    /\ Len(plan.symbols_up_to_date) = 1
    /\ Len(plan.symbols_needing_update) = 1

\* C28 as claimed: whenever in the life of the process a plan is computed, a
\* symbol whose latest stored date is more than 3 days before the current
\* day at plan time needs an incremental fetch and is not up-to-date.
C28_PlanTracksCalendar ==
    plan_path = "query" =>
        \A s \in Range(symbols) :
            LET latest == MaxDate(table, TickerOf(s), 1, None)
            IN  (latest # None /\ latest # NanStr /\ plan_day - strptime(latest) > 3) =>
                    /\ s \in Range(plan.symbols_needing_update)
                    /\ s \notin Range(plan.symbols_up_to_date)

RECURSIVE StoreRows(_, _, _, _, _)
\* The table after rows i..n of a batch have been written one by one, each
\* row that can be converted replacing the stored row of its key.
StoreRows(tbl, rows, i, n, is_missing) ==
    IF i > n THEN tbl
    ELSE StoreRows(IF rows[i].volume = "inf" THEN tbl
                   ELSE Append(SelectSeq(tbl, LAMBDA r :
                                   ~(/\ r.ticker = rows[i].ticker
                                     /\ r.date = DateToStr(tz_localize_none(rows[i].date)))),
                               RowParams(rows[i], is_missing)),
                   rows, i + 1, n, is_missing)

\* How many rows of the batch lie in chunks committed by the last submission.
CommittedRows ==
    IF failure.kind = "none" THEN Len(df)
    ELSE IF failure.kind = "commit" THEN Min((failure.chunk - 1) * chunk_size, Len(df))
    ELSE 0

\* C24: after a submission to insert_dataframe_chunked, the table is the
\* table it found with every row of the chunks committed so far written to
\* it: when the commit of chunk k fails, the chunks before k stay stored and
\* chunk k and the later ones are not; when nothing fails the whole batch is
\* stored.  In each committed chunk a row whose insertion raises is skipped
\* and every other row of the chunk is stored.
C24_PartialSuccess ==
    subs >= 1 =>
        table = StoreRows(IF subs = 1 THEN before ELSE once, df, 1, CommittedRows,
                          df_is_missing)

\* C24 witness: a batch of two chunks whose first chunk holds a row that
\* raises and a row that is stored, and whose second chunk fails to commit.
C24_Witness ==
    /\ subs = 1
    /\ failure = [kind |-> "commit", chunk |-> 2]
    /\ Len(df) = 3
    /\ RowRaises(df[1])
    /\ ~RowRaises(df[2]) /\ ~RowRaises(df[3])
    /\ RowParams(df[2], df_is_missing) \in Range(table)
    /\ RowParams(df[3], df_is_missing) \notin Range(table)
    /\ table # before

\* C26: in an incremental run that has planned, each entry of the plan's
\* needs-full-fetch and needs-incremental-fetch lists has exactly one task
\* (a symbol listed once has one task), each task carries the start and end
\* date the plan assigned to its symbol, every provider request belongs to
\* a task and starts at its start date, and a symbol classified up-to-date
\* has no task and no request.
C26_PlanSubmittedOnce ==
    (~full_refresh /\ pc \in {"fetching", "done"} /\ plan_path # "none") =>
        /\ \A s \in Symbols :
              Cardinality({j \in 1..Len(tasks) : tasks[j].symbol = s}) =
                  Count(plan.symbols_needing_full_fetch, s)
                      + Count(plan.symbols_needing_update, s)
        /\ \A j \in 1..Len(tasks) :
              /\ tasks[j].symbol \in DOMAIN plan.update_ranges
              /\ <<tasks[j].start, tasks[j].end>> = plan.update_ranges[tasks[j].symbol]
        /\ \A q \in requests :
              /\ q.symbol \in DOMAIN plan.update_ranges
              /\ <<q.start, q.nominal_end>> = plan.update_ranges[q.symbol]
        /\ \A s \in Range(plan.symbols_up_to_date) :
              /\ \A j \in 1..Len(tasks) : tasks[j].symbol # s
              /\ \A q \in requests : q.symbol # s

\* C26 witness: a finished incremental run over two symbols, one up-to-date
\* and never fetched, the other fetched once from the day after its latest
\* stored date.
C26_Witness ==
    /\ pc = "done" /\ ~full_refresh /\ plan_path = "query"
    /\ Len(symbols) = 2
    /\ Len(plan.symbols_up_to_date) = 1
    /\ Len(plan.symbols_needing_update) = 1
    /\ Len(tasks) = 1
    /\ tasks[1].symbol = plan.symbols_needing_update[1]
    /\ tasks[1].start # START_DATE
    /\ Cardinality(requests) = 1
    /\ ret.success

\* C30: when an incremental run has returned success and every task it
\* submitted was answered with a frame holding a bar dated at the effective
\* end date of its range, the plan computed on the resulting table on the
\* same day, by an answered latest-date query, classifies every symbol of
\* the run as up-to-date and plans no fetch; the run that follows therefore
\* takes the early return without fetching or writing.
C30_IncrementalConverges ==
    (/\ pc = "done" /\ ~full_refresh /\ ret.success /\ symbols # <<>>
     /\ \A j \in 1..Len(tasks) : tasks[j].resp \in {"bar_at_end", "two_bars"}) =>
        LET again == get_update_plan(symbols, table, today, end_date, FALSE, FALSE)
        IN  /\ again.symbols_up_to_date = symbols
            /\ again.symbols_needing_full_fetch = <<>>
            /\ again.symbols_needing_update = <<>>
            /\ DOMAIN again.update_ranges = {}
            /\ NothingToDo(again.symbols_needing_full_fetch \o again.symbols_needing_update)

\* C30 witness: an incremental run over two symbols, one fetched in full and
\* one from the day after its latest stored date, both answered with a bar
\* at the effective end date and stored, finished the day after the process
\* started.
C30_Witness ==
    /\ pc = "done" /\ ~full_refresh /\ ret.success
    /\ insert_calls = 1
    /\ today = InitDay + 1
    /\ Len(tasks) = 2
    /\ tasks[1].start = START_DATE /\ tasks[2].start # START_DATE
    /\ \A j \in 1..Len(tasks) :
          /\ tasks[j].resp = "bar_at_end"
          /\ <<TickerOf(tasks[j].symbol), tasks[j].eff_end>> \in Keys(table)

\* C22 as claimed: the progress callback has been called once for each
\* completed task taken by the loop, and the fraction of its last call is
\* the number of those tasks over the number of submitted tasks, so that it
\* is 1 on the call for the last task, in both modes and whatever the
\* outcomes.
C22_ProgressIsFractionCompleted ==
    (pc \in {"fetching", "done"} /\ tasks # <<>>) =>
        LET taken == Cardinality({j \in 1..Len(tasks) : tasks[j].st = "yielded"})
        IN  /\ progress.calls = taken
            /\ taken > 0 => progress.fraction = <<taken, Len(tasks)>>

RECURSIVE RowsInSubmissionOrder(_)
\* The rows of the frames the tasks returned, in the order of submission.
RowsInSubmissionOrder(j) ==
    IF j > Len(tasks) THEN <<>> ELSE tasks[j].data \o RowsInSubmissionOrder(j + 1)

\* Each symbol got one response, however many tasks fetched it.
FixedPerSymbol ==
    \A i, j \in 1..Len(tasks) : tasks[i].symbol = tasks[j].symbol => tasks[i].data = tasks[j].data

\* How many of n rows lie in chunks the run's insert call committed.
CommittedOf(n) ==
    IF failure.kind = "none" THEN n
    ELSE IF failure.kind = "commit" THEN Min((failure.chunk - 1) * chunk_size, n)
    ELSE 0

\* The outcome of a finished run is the one computed from the responses in
\* submission order: the success flag, the counts and total of the summary,
\* the counts of the last callback call, and the rows of the table.
OrderFreeOutcome ==
    LET rows == RowsInSubmissionOrder(1)
        succ == Cardinality({j \in 1..Len(tasks) : tasks[j].data # <<>>})
        none == Cardinality({j \in 1..Len(tasks) : tasks[j].data = <<>>})
        fail == IF full_refresh THEN none ELSE 0
    IN  /\ ret.success = (/\ insert_calls = 1
                          /\ failure.kind = "none"
                          /\ \E k \in 1..Len(rows) : ~RowRaises(rows[k]))
        /\ "successful_fetches" \in DOMAIN ret.result =>
              /\ ret.result.successful_fetches = succ
              /\ ret.result.failed_fetches = fail
              /\ ret.result.skipped_fetches =
                     (IF full_refresh THEN 0 ELSE Len(symbols) - Len(tasks))
              /\ ret.result.total_records = Len(rows)
        /\ "successful_fetches" \notin DOMAIN ret.result =>
              /\ "error" \in DOMAIN ret.result
              /\ "failed_fetches" \in DOMAIN ret.result => ret.result.failed_fetches = fail
        /\ progress.calls = Len(tasks)
        /\ progress.successes = succ
        /\ progress.failures = fail
        /\ SameContents(table,
                        IF insert_calls = 0 THEN table0
                        ELSE StoreRows(table0, rows, 1, CommittedOf(Len(rows)), FALSE))

C25_RunCompletes ==
    /\ (pc = "fetching") ~> (pc = "done")
    /\ [](pc = "done" => \A j \in 1..Len(tasks) : tasks[j].st = "yielded")

\* C25 witness: a returned run of two tasks that ran side by side, one
\* answered with rows and one with an exception.
C25_Witness ==
    /\ pc = "done"
    /\ max_workers = 2
    /\ Len(tasks) = 2
    /\ \A j \in 1..Len(tasks) : tasks[j].st = "yielded"
    /\ \E j \in 1..Len(tasks) : tasks[j].resp = "raise"
    /\ \E j \in 1..Len(tasks) : tasks[j].resp = "bar_at_end"


\* C29: in the menu-bar app at most one update run is in progress at any
\* time: a request made while a run is active is rejected by the
\* is_updating guard, for every interleaving of requests with the update
\* threads.
C29_AtMostOneUpdateRun ==
    Cardinality(RunningUpdates) <= 1

====
